---- MODULE Spec2Model ----
(***************************************************************************)
(* cassandra/io/asyncioreactor.py: the asyncio reactor of the driver.      *)
(*                                                                         *)
(* The state machines of this module:                                      *)
(*   SpecReactor  the class-level state of AsyncioConnection (_loop, _pid, *)
(*                _lock, _loop_thread) under initialize_reactor() calls    *)
(*                from several threads and under fork.                     *)
(*   Spec         one AsyncioConnection: its constructor, close(), and the *)
(*                two coroutines handle_read / handle_write run by the     *)
(*                single loop thread from the loop's FIFO of callbacks.    *)
(*   SpecWrite    the same connection with callers that push and close.    *)
(*   SpecPush     push() as a function of (data, out_buffer_size).         *)
(*   SpecTimer    one AsyncioTimer made by create_timer().                 *)
(*   LiveWrite, LiveWant, LiveTimer: the loop thread taken as fair.        *)
(***************************************************************************)
EXTENDS Naturals, Sequences, FiniteSets

\* ------------------------------------------------------------- bounds
MaxPid == 3            \* process ids 1..MaxPid (MaxPid - 1 forks)
MaxInitCalls == 3      \* initialize_reactor() calls per process
MaxPush == 2           \* push() calls made by callers after construction
MaxLen == 3            \* longest payload pushed
OutBufferSize == 2     \* out_buffer_size of the connection
MaxClose == 2          \* close() calls made by callers
MaxRecv == 2           \* receives that return data
MaxWant == 1           \* receives that raise SSLWantReadError / SSLWantWriteError
MaxData == 5           \* longest data given to push taken alone
MaxBuf == 4            \* largest out_buffer_size given to push taken alone
MaxDelay == 2          \* longest delay given to create_timer
MaxNow == 3            \* the loop's clock runs from 0 to MaxNow
MaxCancel == 2         \* cancel() calls made on the timer
MaxQuery == 2          \* .end reads and finish() calls made on the timer

\* Python's None where a loop is expected (loops are named 1, 2, ...)
None == 0
\* Python's None where a Thread object is expected
NoThread == [proc |-> 0, loop |-> 0]
\* Python's unlocked Lock / no holder
Free == "free"
\* os.getpid() when the class body was executed
ImportPid == 1
Threads == {"main", "t2"}
\* the threads that use a constructed connection, and the loop thread
Callers == {"t1", "t2"}
LoopThread == "loop"
\* the options message _send_options_message() pushes (one chunk)
OptionsLen == 1

VARIABLES
  \* ---- process and class attributes (AsyncioConnection._loop etc.)
  getpid,        \* os.getpid() of the process being followed
  _pid,          \* cls._pid
  _loop,         \* cls._loop: None or a loop, named by the pid that created it
  _loop_thread,  \* cls._loop_thread: NoThread or a Thread object
  _lock,         \* cls._lock: Free or the thread holding it
  policyLoop,    \* asyncio's current event loop of the main thread (None: not yet made)
  alive,         \* Thread objects started in the process being followed
  irPc,          \* position of each thread inside initialize_reactor()
  irCalls,       \* initialize_reactor() calls begun in this process
  irReturned     \* ... calls that returned normally in this process

reactorVars == <<getpid, _pid, _loop, _loop_thread, _lock, policyLoop, alive,
                 irPc, irCalls, irReturned>>

VARIABLES
  \* ---- one AsyncioConnection
  ctorPc,          \* position of the constructing thread inside __init__
  sock,            \* the socket: "new", "connected", "nonblocking"
  _write_queue,    \* asyncio.Queue: the chunks it holds, oldest first
  _read_watcher,   \* self._read_watcher: "unset" or "stored"
  _write_watcher,  \* self._write_watcher: "unset" or "stored"
  rFut, wFut,      \* the concurrent futures run_coroutine_threadsafe returned
  rTask, wTask,    \* the tasks running handle_read / handle_write
  ready,           \* the loop's FIFO of ready callbacks
  lock,            \* self.lock: Free or its holder
  is_closed,       \* self.is_closed
  connected_event, \* self.connected_event is set
  closePc,         \* position of each caller inside close()
  toPush,          \* chunks a caller inside push() has still to hand over
  sending,         \* bytes of the dequeued chunk sock_sendall has still to send
  sent,            \* bytes handed to the socket, in order
  _iobuf,          \* bytes in self._iobuf
  \* ---- history of the run
  pushed,          \* payloads in the order push() was invoked
  pushing,         \* index in pushed of each caller's push() in progress, or 0
  before,          \* <<i, j>>: push i had returned when push j was invoked
  enqueued,        \* chunks in the order put_nowait stored them
  received,        \* bytes written to _iobuf, in order
  flips,           \* times is_closed went from False to True
  cancelReq,       \* cancel() calls close() made on each watcher
  closeErrors,     \* close() calls that ended in an exception
  closeByRead,     \* close() calls made by handle_read
  defunctCalls,    \* defunct() calls made by each loop
  procCalls,       \* process_io_buffer() calls
  closeCalls,      \* close() calls made by callers
  nRecv, nWant,    \* receives that returned data / raised SSLWant*
  nEof, nRecvErr,  \* receives that returned b'' / raised another socket.error
  nSendErr,        \* socket errors raised in handle_write
  lastRecv         \* how the last sock_recv ended: "data", "eof", "want", "error"

connVars == <<ctorPc, sock, _write_queue, _read_watcher, _write_watcher, rFut, wFut,
              rTask, wTask, ready, lock, is_closed, connected_event, closePc,
              toPush, sending, sent, _iobuf>>
histVars == <<pushed, pushing, before, enqueued, received, flips, cancelReq,
              closeErrors, closeByRead, defunctCalls, procCalls, closeCalls,
              nRecv, nWant, nEof, nRecvErr, nSendErr, lastRecv>>

VARIABLES
  \* ---- push(data) taken alone
  data,            \* the argument of push
  out_buffer_size, \* self.out_buffer_size
  chunks,          \* the chunks push handed to _push_chunk, in order
  pushPc           \* "call" before push runs, "returned" after

pushVars == <<data, out_buffer_size, chunks, pushPc>>

VARIABLES
  \* ---- one AsyncioTimer and the loop's clock
  now,             \* loop.time()
  madeBy,          \* "none", or the thread whose create_timer call returned the timer
  timeout,         \* the delay given to create_timer
  madeAt,          \* loop.time() when create_timer was called
  _handle,         \* self._handle: the concurrent future of _call_delayed_coro
  tTask,           \* the task running _call_delayed_coro
  deadline,        \* when the call_later of asyncio.sleep is due
  dueQueued,       \* the loop has moved that call_later to its ready callbacks
  callbackRuns,    \* times callback() was called
  callbackAt,      \* loop.time() of the last callback() call
  callbackBy,      \* the threads that called callback()
  cancelCalls,     \* cancel() calls made on the timer
  cancelHit,       \* task.cancel() was run by the loop before the task ended
  queries,         \* .end reads and finish() calls made on the timer
  notImplemented   \* ... of which ended in NotImplementedError

timerVars == <<now, madeBy, timeout, madeAt, _handle, tTask, deadline, dueQueued,
               callbackRuns, callbackAt, callbackBy, cancelCalls, cancelHit,
               queries, notImplemented>>

vars == <<reactorVars, connVars, histVars, pushVars, timerVars>>

\* ====================================================================
\*  EventLoopManager: class attributes and initialize_reactor()
\* ====================================================================

\* A threading.Thread(target=loop.run_forever, daemon=True) that was started
\* in process p.
NewThread(p, loop) == [proc |-> p, loop |-> loop]

\* Class body, lines 79-83, executed at import in process ImportPid.
ClassInit ==
  /\ getpid = ImportPid
  /\ _pid = ImportPid
  /\ _loop = None
  /\ _loop_thread = NoThread
  /\ _lock = Free
  /\ policyLoop = None
  /\ alive = {}
  /\ irPc = [t \in Threads |-> "idle"]
  /\ irCalls = 0
  /\ irReturned = 0

\* `with cls._lock:` entered.
IR_Acquire(t) ==
  /\ irPc[t] = "idle"
  /\ _lock = Free
  /\ irCalls < MaxInitCalls
  /\ _lock' = t
  /\ irPc' = [irPc EXCEPT ![t] = "check_pid"]
  /\ irCalls' = irCalls + 1
  /\ UNCHANGED <<connVars, histVars, pushVars, timerVars, getpid, _pid, _loop, _loop_thread, policyLoop, alive, irReturned>>

\* if cls._pid != os.getpid(): cls._loop = None
IR_CheckPid(t) ==
  /\ irPc[t] = "check_pid"
  /\ _loop' = IF _pid # getpid THEN None ELSE _loop
  /\ irPc' = [irPc EXCEPT ![t] = "check_loop"]
  /\ UNCHANGED <<connVars, histVars, pushVars, timerVars, getpid, _pid, _loop_thread, _lock, policyLoop, alive, irCalls, irReturned>>

\* asyncio.get_event_loop() in thread t: the thread's current loop.  The main
\* thread gets one made on first use; it is kept across fork (the child's
\* main thread has the parent's loop object).
GetEventLoop == IF policyLoop = None THEN getpid ELSE policyLoop

\* if cls._loop is None: cls._loop = asyncio.get_event_loop()
IR_CheckLoop(t) ==
  /\ irPc[t] = "check_loop"
  /\ \/ /\ _loop = None
        /\ t = "main"
        /\ policyLoop' = GetEventLoop
        /\ _loop' = GetEventLoop
     \/ /\ _loop # None
        /\ UNCHANGED <<_loop, policyLoop>>
  /\ irPc' = [irPc EXCEPT ![t] = "check_thread"]
  /\ UNCHANGED <<connVars, histVars, pushVars, timerVars, getpid, _pid, _loop_thread, _lock, alive, irCalls, irReturned>>

\* get_event_loop() in a thread that is not the main thread and has no loop
\* set raises RuntimeError: the with block is left, the call ends in error.
IR_GetLoopRaises(t) ==
  /\ irPc[t] = "check_loop"
  /\ _loop = None
  /\ t # "main"
  /\ _lock' = Free
  /\ irPc' = [irPc EXCEPT ![t] = "idle"]
  /\ UNCHANGED <<connVars, histVars, pushVars, timerVars, getpid, _pid, _loop, _loop_thread, policyLoop, alive, irCalls, irReturned>>

\* if not cls._loop_thread: start Thread(target=cls._loop.run_forever);
\* then the with block ends and the call returns.
IR_CheckThread(t) ==
  /\ irPc[t] = "check_thread"
  /\ IF _loop_thread = NoThread
       THEN /\ _loop_thread' = NewThread(getpid, _loop)
            /\ alive' = alive \cup {NewThread(getpid, _loop)}
       ELSE UNCHANGED <<_loop_thread, alive>>
  /\ _lock' = Free
  /\ irPc' = [irPc EXCEPT ![t] = "idle"]
  /\ irReturned' = irReturned + 1
  /\ UNCHANGED <<connVars, histVars, pushVars, timerVars, getpid, _pid, _loop, policyLoop, irCalls>>

\* os.fork() by the main thread; the model follows the child.  The child has
\* a copy of every object and only the forking thread: no thread started by
\* the parent runs in it.
Fork ==
  /\ getpid < MaxPid
  /\ _lock = Free
  /\ \A t \in Threads : irPc[t] = "idle"
  /\ getpid' = getpid + 1
  /\ alive' = {}
  /\ irCalls' = 0
  /\ irReturned' = 0
  /\ UNCHANGED <<connVars, histVars, pushVars, timerVars, _pid, _loop, _loop_thread, _lock, policyLoop, irPc>>

initialize_reactor(t) ==
  \/ IR_Acquire(t)
  \/ IR_CheckPid(t)
  \/ IR_CheckLoop(t)
  \/ IR_GetLoopRaises(t)
  \/ IR_CheckThread(t)



NextReactor ==
  \/ \E t \in Threads : initialize_reactor(t)
  \/ Fork

InitConnIdle ==
  /\ ctorPc = "connect"
  /\ sock = "new"
  /\ _write_queue = <<>>
  /\ _read_watcher = "unset"
  /\ _write_watcher = "unset"
  /\ rFut = "none"
  /\ wFut = "none"
  /\ rTask = "none"
  /\ wTask = "none"
  /\ ready = <<>>
  /\ lock = Free
  /\ is_closed = FALSE
  /\ connected_event = FALSE
  /\ closePc = [c \in Callers \cup {LoopThread} |-> "idle"]
  /\ toPush = [c \in Callers \cup {"main"} |-> <<>>]
  /\ sending = <<>>
  /\ sent = <<>>
  /\ _iobuf = <<>>
  /\ pushed = <<>>
  /\ pushing = [c \in Callers \cup {"main"} |-> 0]
  /\ before = {}
  /\ enqueued = <<>>
  /\ received = <<>>
  /\ flips = 0
  /\ cancelReq = [read |-> 0, write |-> 0]
  /\ closeErrors = 0
  /\ closeByRead = 0
  /\ defunctCalls = [read |-> 0, write |-> 0]
  /\ procCalls = 0
  /\ closeCalls = 0
  /\ nRecv = 0
  /\ nWant = 0
  /\ nEof = 0
  /\ nRecvErr = 0
  /\ nSendErr = 0
  /\ lastRecv = "none"

\* No push(data) is followed alone.
InitPushIdle ==
  /\ data = <<>>
  /\ out_buffer_size = OutBufferSize
  /\ chunks = <<>>
  /\ pushPc = "returned"

\* No timer has been made.
InitTimerIdle ==
  /\ now = 0
  /\ madeBy = "none"
  /\ timeout = 0
  /\ madeAt = 0
  /\ _handle = "none"
  /\ tTask = "none"
  /\ deadline = 0
  /\ dueQueued = FALSE
  /\ callbackRuns = 0
  /\ callbackAt = 0
  /\ callbackBy = {}
  /\ cancelCalls = 0
  /\ cancelHit = FALSE
  /\ queries = 0
  /\ notImplemented = 0

InitReactor == ClassInit /\ InitConnIdle /\ InitPushIdle /\ InitTimerIdle

SpecReactor ==
  InitReactor /\ [][NextReactor]_vars

\* ====================================================================
\*  The shared loop: a FIFO of ready callbacks run by one thread
\* ====================================================================

CB(op, chunk) == [op |-> op, chunk |-> chunk]

\* (mutation of CallSoon: the callback is put in front of those waiting)
CallSoonFront(q, cb) == <<cb>> \o q

\* loop.call_soon / call_soon_threadsafe: the callback goes to the end.
CallSoon(q, cb) == Append(q, cb)

\* The loop thread is inside a coroutine (between two suspension points).
LoopBusy == rTask \in {"run", "close"} \/ wTask = "run"

\* The loop thread takes the next ready callback.
NextCallback(op) ==
  /\ ~LoopBusy
  /\ ready # <<>>
  /\ Head(ready).op = op

\* A task that has ended completes its concurrent future, unless that was
\* cancelled.
FutAfterTaskEnd(f) == IF f = "pending" THEN "finished" ELSE f

\* concurrent.futures.Future.cancel() of a watcher: a pending future becomes
\* cancelled; once the task exists, task.cancel is handed to the loop.
FutCancel(f) == IF f = "pending" THEN "cancelled" ELSE f
CancelHandOff(f, task, q, op) ==
  IF f = "pending" /\ task # "none" THEN CallSoon(q, CB(op, <<>>)) ELSE q

\* ====================================================================
\*  push / _push_chunk
\* ====================================================================

\* data[i:i + n] with i counted from 0, as Python slices
Slice(d, i, n) ==
  SubSeq(d, i + 1, IF i + n < Len(d) THEN i + n ELSE Len(d))

\* range(0, len, step) as the sequence of its values
RECURSIVE RangeFrom(_, _, _)
RangeFrom(i, len, step) ==
  IF i >= len THEN <<>> ELSE <<i>> \o RangeFrom(i + step, len, step)

\* (mutation of PushChunks: the payload is never split)
PushChunksWhole(d, buff_size) == <<d>>

\* The chunks push(data) passes to _push_chunk, in order (lines 136-141).
PushChunks(d, buff_size) ==
  IF Len(d) > buff_size
    THEN [k \in 1..Len(RangeFrom(0, Len(d), buff_size)) |->
            Slice(d, RangeFrom(0, Len(d), buff_size)[k], buff_size)]
    ELSE <<d>>

\* All byte strings of length up to n over the bytes 1 and 2
RECURSIVE Strings(_)
Strings(n) ==
  IF n = 0 THEN {<<>>}
  ELSE Strings(n - 1) \cup {Append(x, b) : x \in {y \in Strings(n - 1) : Len(y) = n - 1},
                                           b \in {1, 2}}

\* push(data) on a connection whose out_buffer_size is any size from 1 up.
InitPush ==
  /\ data \in Strings(MaxData)
  /\ out_buffer_size \in 1..MaxBuf
  /\ chunks = <<>>
  /\ pushPc = "call"

PushAlone ==
  /\ pushPc = "call"
  /\ chunks' = PushChunks(data, out_buffer_size)
  /\ pushPc' = "returned"
  /\ UNCHANGED <<reactorVars, connVars, histVars, timerVars, data, out_buffer_size>>

\* The payload of the n-th push: bytes that name the push and their place.
Payload(n, len) == [k \in 1..len |-> 10 * n + k]

RECURSIVE Concat(_)
Concat(ss) == IF ss = <<>> THEN <<>> ELSE Head(ss) \o Concat(Tail(ss))

\* push(data) is entered by thread c and makes its first _push_chunk call:
\* run_coroutine_threadsafe(self._write_queue.put(chunk)) leaves the put on
\* the loop.  push returns after the last chunk.
PushEnter(c, d) ==
  /\ toPush[c] = <<>>
  /\ ready' = CallSoon(ready, CB("put", Head(PushChunks(d, OutBufferSize))))
  /\ toPush' = [toPush EXCEPT ![c] = Tail(PushChunks(d, OutBufferSize))]
  /\ pushed' = Append(pushed, d)
  /\ pushing' = [pushing EXCEPT
       ![c] = IF Len(PushChunks(d, OutBufferSize)) = 1 THEN 0 ELSE Len(pushed) + 1]
  /\ before' = before \cup
       {<<i, Len(pushed) + 1>> : i \in {j \in 1..Len(pushed) :
                                          \A t \in DOMAIN pushing : pushing[t] # j}}

\* (mutation of _push_chunk: the call waits while the connection is closed)
PushChunkUnlessClosed(c) ==
  /\ ~is_closed
  /\ toPush[c] # <<>>
  /\ ready' = CallSoon(ready, CB("put", Head(toPush[c])))
  /\ toPush' = [toPush EXCEPT ![c] = Tail(toPush[c])]
  /\ pushing' = [pushing EXCEPT ![c] = IF Len(toPush[c]) = 1 THEN 0 ELSE pushing[c]]
  /\ UNCHANGED <<pushed, before>>

\* The next _push_chunk(chunk) call of the for loop in push.
_push_chunk(c) ==
  /\ toPush[c] # <<>>
  /\ ready' = CallSoon(ready, CB("put", Head(toPush[c])))
  /\ toPush' = [toPush EXCEPT ![c] = Tail(toPush[c])]
  /\ pushing' = [pushing EXCEPT ![c] = IF Len(toPush[c]) = 1 THEN 0 ELSE pushing[c]]
  /\ UNCHANGED <<pushed, before>>

\* A caller's push(data), data of any length up to MaxLen.
push(c) ==
  /\ ctorPc = "done"
  /\ \/ /\ Len(pushed) < MaxPush + 1
        /\ \E len \in 0..MaxLen : PushEnter(c, Payload(Len(pushed) + 1, len))
     \/ _push_chunk(c)
  /\ UNCHANGED <<reactorVars, pushVars, timerVars, ctorPc, sock, _write_queue, _read_watcher, _write_watcher,
                 rFut, wFut, rTask, wTask, lock, is_closed, connected_event, closePc,
                 sending, sent, _iobuf, enqueued, received, flips, cancelReq,
                 closeErrors, closeByRead, defunctCalls, procCalls, closeCalls,
                 nRecv, nWant, nEof, nRecvErr, nSendErr, lastRecv>>

\* (mutation of QueuePut: the chunk is stored, a waiting getter is not woken)
QueuePutNoWake ==
  /\ NextCallback("put")
  /\ _write_queue' = Append(_write_queue, Head(ready).chunk)
  /\ enqueued' = Append(enqueued, Head(ready).chunk)
  /\ ready' = Tail(ready)
  /\ UNCHANGED wTask
  /\ UNCHANGED <<reactorVars, pushVars, timerVars, ctorPc, sock, _read_watcher, _write_watcher,
                 rFut, wFut, rTask, lock, is_closed, connected_event, closePc,
                 toPush, sending, sent, _iobuf, pushed, pushing, before, received,
                 flips, cancelReq, closeErrors, closeByRead, defunctCalls, procCalls,
                 closeCalls, nRecv, nWant, nEof, nRecvErr, nSendErr, lastRecv>>

\* The loop runs self._write_queue.put(chunk).  The queue is unbounded:
\* put_nowait stores the chunk and wakes the getter, if handle_write waits
\* in get().
QueuePut ==
  /\ NextCallback("put")
  /\ _write_queue' = Append(_write_queue, Head(ready).chunk)
  /\ enqueued' = Append(enqueued, Head(ready).chunk)
  /\ IF wTask = "getwait"
       THEN /\ wTask' = "sched"
            /\ ready' = CallSoon(Tail(ready), CB("step_write", <<>>))
       ELSE /\ ready' = Tail(ready)
            /\ UNCHANGED wTask
  /\ UNCHANGED <<reactorVars, pushVars, timerVars, ctorPc, sock, _read_watcher, _write_watcher,
                 rFut, wFut, rTask, lock, is_closed, connected_event, closePc,
                 toPush, sending, sent, _iobuf, pushed, pushing, before, received,
                 flips, cancelReq, closeErrors, closeByRead, defunctCalls, procCalls,
                 closeCalls, nRecv, nWant, nEof, nRecvErr, nSendErr, lastRecv>>

\* ====================================================================
\*  __init__
\* ====================================================================

\* self._connect_socket()
CtorConnect ==
  /\ ctorPc = "connect"
  /\ sock' = "connected"
  /\ ctorPc' = "setblocking"
  /\ UNCHANGED <<reactorVars, pushVars, timerVars, _write_queue, _read_watcher, _write_watcher, rFut, wFut,
                 rTask, wTask, ready, lock, is_closed, connected_event, closePc,
                 toPush, sending, sent, _iobuf, histVars>>

\* self._socket.setblocking(0)
CtorSetBlocking ==
  /\ ctorPc = "setblocking"
  /\ sock' = "nonblocking"
  /\ ctorPc' = "queue"
  /\ UNCHANGED <<reactorVars, pushVars, timerVars, _write_queue, _read_watcher, _write_watcher, rFut, wFut,
                 rTask, wTask, ready, lock, is_closed, connected_event, closePc,
                 toPush, sending, sent, _iobuf, histVars>>

\* self._write_queue = asyncio.Queue(loop=self._loop): an empty queue
\* (the attribute is None while ctorPc is "connect", "setblocking", "queue")
CtorQueue ==
  /\ ctorPc = "queue"
  /\ _write_queue' = <<>>
  /\ ctorPc' = "submit_read"
  /\ UNCHANGED <<reactorVars, pushVars, timerVars, sock, _read_watcher, _write_watcher, rFut, wFut,
                 rTask, wTask, ready, lock, is_closed, connected_event, closePc,
                 toPush, sending, sent, _iobuf, histVars>>

\* (mutation of CtorSubmitRead: the read loop is submitted before the connect)
CtorSubmitReadFirst ==
  /\ ctorPc = "connect"
  /\ rFut' = "pending"
  /\ ready' = CallSoon(ready, CB("spawn_read", <<>>))
  /\ ctorPc' = "store_read"
  /\ UNCHANGED <<reactorVars, pushVars, timerVars, sock, _write_queue, _read_watcher, _write_watcher, wFut,
                 rTask, wTask, lock, is_closed, connected_event, closePc,
                 toPush, sending, sent, _iobuf, histVars>>

\* run_coroutine_threadsafe(self.handle_read(), loop=self._loop) is called ...
CtorSubmitRead ==
  /\ ctorPc = "submit_read"
  /\ rFut' = "pending"
  /\ ready' = CallSoon(ready, CB("spawn_read", <<>>))
  /\ ctorPc' = "store_read"
  /\ UNCHANGED <<reactorVars, pushVars, timerVars, sock, _write_queue, _read_watcher, _write_watcher, wFut,
                 rTask, wTask, lock, is_closed, connected_event, closePc,
                 toPush, sending, sent, _iobuf, histVars>>

\* ... and its result is assigned to self._read_watcher.
CtorStoreRead ==
  /\ ctorPc = "store_read"
  /\ _read_watcher' = "stored"
  /\ ctorPc' = "submit_write"
  /\ UNCHANGED <<reactorVars, pushVars, timerVars, sock, _write_queue, _write_watcher, rFut, wFut,
                 rTask, wTask, ready, lock, is_closed, connected_event, closePc,
                 toPush, sending, sent, _iobuf, histVars>>

\* run_coroutine_threadsafe(self.handle_write(), loop=self._loop) is called ...
CtorSubmitWrite ==
  /\ ctorPc = "submit_write"
  /\ wFut' = "pending"
  /\ ready' = CallSoon(ready, CB("spawn_write", <<>>))
  /\ ctorPc' = "store_write"
  /\ UNCHANGED <<reactorVars, pushVars, timerVars, sock, _write_queue, _read_watcher, _write_watcher, rFut,
                 rTask, wTask, lock, is_closed, connected_event, closePc,
                 toPush, sending, sent, _iobuf, histVars>>

\* ... and its result is assigned to self._write_watcher.
CtorStoreWrite ==
  /\ ctorPc = "store_write"
  /\ _write_watcher' = "stored"
  /\ ctorPc' = "options"
  /\ UNCHANGED <<reactorVars, pushVars, timerVars, sock, _write_queue, _read_watcher, rFut, wFut,
                 rTask, wTask, ready, lock, is_closed, connected_event, closePc,
                 toPush, sending, sent, _iobuf, histVars>>

\* self._send_options_message(): the options message goes through push.
CtorOptions ==
  /\ \/ /\ ctorPc = "options"
        /\ PushEnter("main", Payload(1, OptionsLen))
        /\ ctorPc' = IF Len(PushChunks(Payload(1, OptionsLen), OutBufferSize)) = 1
                       THEN "done" ELSE "push_options"
     \/ /\ ctorPc = "push_options"
        /\ _push_chunk("main")
        /\ ctorPc' = IF Len(toPush["main"]) = 1 THEN "done" ELSE ctorPc
  /\ UNCHANGED <<reactorVars, pushVars, timerVars, sock, _write_queue, _read_watcher, _write_watcher,
                 rFut, wFut, rTask, wTask, lock, is_closed, connected_event, closePc,
                 sending, sent, _iobuf, enqueued, received, flips, cancelReq,
                 closeErrors, closeByRead, defunctCalls, procCalls, closeCalls,
                 nRecv, nWant, nEof, nRecvErr, nSendErr, lastRecv>>

__init__ ==
  \/ CtorConnect
  \/ CtorSetBlocking
  \/ CtorQueue
  \/ CtorSubmitRead
  \/ CtorStoreRead
  \/ CtorSubmitWrite
  \/ CtorStoreWrite
  \/ CtorOptions

\* ====================================================================
\*  handle_write
\* ====================================================================

\* The callback run_coroutine_threadsafe left on the loop: the task is made,
\* its first step is scheduled and it is chained to the concurrent future; a
\* future cancelled before that hands task.cancel to the loop, behind the step.
SpawnWrite ==
  /\ NextCallback("spawn_write")
  /\ wTask' = "sched"
  /\ ready' = IF wFut = "cancelled"
                THEN CallSoon(CallSoon(Tail(ready), CB("step_write", <<>>)),
                              CB("cancel_write", <<>>))
                ELSE CallSoon(Tail(ready), CB("step_write", <<>>))
  /\ UNCHANGED <<reactorVars, pushVars, timerVars, ctorPc, sock, _write_queue, _read_watcher, _write_watcher,
                 rFut, wFut, rTask, lock, is_closed, connected_event, closePc,
                 toPush, sending, sent, _iobuf, histVars>>

\* (mutation of StepWrite: a step scheduled before the cancellation resumes
\* the cancelled task)
StepWriteRevives ==
  /\ NextCallback("step_write")
  /\ ready' = Tail(ready)
  /\ wTask' = IF wTask \in {"sched", "cancelled"} THEN "run" ELSE wTask
  /\ UNCHANGED <<reactorVars, pushVars, timerVars, ctorPc, sock, _write_queue, _read_watcher, _write_watcher,
                 rFut, wFut, rTask, lock, is_closed, connected_event, closePc,
                 toPush, sending, sent, _iobuf, histVars>>

\* A step of the task: the coroutine runs on from where it was suspended.
StepWrite ==
  /\ NextCallback("step_write")
  /\ ready' = Tail(ready)
  /\ wTask' = IF wTask = "sched" THEN "run" ELSE wTask
  /\ UNCHANGED <<reactorVars, pushVars, timerVars, ctorPc, sock, _write_queue, _read_watcher, _write_watcher,
                 rFut, wFut, rTask, lock, is_closed, connected_event, closePc,
                 toPush, sending, sent, _iobuf, histVars>>

\* task.cancel() on the loop: CancelledError is thrown into the coroutine at
\* its suspension point; neither except clause of the loops catches it.
CancelWrite ==
  /\ NextCallback("cancel_write")
  /\ ready' = Tail(ready)
  /\ IF wTask \in {"sched", "getwait", "sendwait"}
       THEN wTask' = "cancelled" /\ sending' = <<>>
       ELSE UNCHANGED <<wTask, sending>>
  /\ UNCHANGED <<reactorVars, pushVars, timerVars, ctorPc, sock, _write_queue, _read_watcher, _write_watcher,
                 rFut, wFut, rTask, lock, is_closed, connected_event, closePc,
                 toPush, sent, _iobuf, histVars>>

\* (mutation of WriteOutcome: after defunct(err) the loop goes on)
WriteOutcomeGoesOn(msg, k, err) ==
  /\ sent' = sent \o SubSeq(msg, 1, k)
  /\ IF err
       THEN /\ defunctCalls' = [defunctCalls EXCEPT !.write = @ + 1]
            /\ nSendErr' = nSendErr + 1
            /\ wTask' = "run"
            /\ sending' = <<>>
            /\ UNCHANGED wFut
       ELSE /\ sending' = SubSeq(msg, k + 1, Len(msg))
            /\ wTask' = IF k = Len(msg) THEN "run" ELSE "sendwait"
            /\ UNCHANGED <<defunctCalls, nSendErr, wFut>>

\* What handle_write does when the socket took the first k bytes of msg and
\* then, with err, raised socket.error: defunct(err) and return; without,
\* the loop goes on, or the task is suspended until the socket is writable.
WriteOutcome(msg, k, err) ==
  /\ sent' = sent \o SubSeq(msg, 1, k)
  /\ IF err
       THEN /\ defunctCalls' = [defunctCalls EXCEPT !.write = @ + 1]
            /\ nSendErr' = nSendErr + 1
            /\ wTask' = "failed"
            /\ wFut' = FutAfterTaskEnd(wFut)
            /\ sending' = <<>>
       ELSE /\ sending' = SubSeq(msg, k + 1, Len(msg))
            /\ wTask' = IF k = Len(msg) THEN "run" ELSE "sendwait"
            /\ UNCHANGED <<defunctCalls, nSendErr, wFut>>

\* The ways a sock_sendall of msg can go on: k bytes taken, then an error or
\* not (no error after the last byte).
SendCases(msg) == {kc \in (0..Len(msg)) \X BOOLEAN : kc[2] => kc[1] < Len(msg)}

\* (mutation of WriteGet: an empty chunk ends the loop)
WriteGetEndsOnEmpty ==
  /\ wTask = "run"
  /\ sending = <<>>
  /\ IF _write_queue = <<>>
       THEN /\ wTask' = "getwait"
            /\ UNCHANGED <<_write_queue, sending, sent, defunctCalls, nSendErr, wFut>>
       ELSE /\ _write_queue' = Tail(_write_queue)
            /\ IF Head(_write_queue) # <<>>
                 THEN \E kc \in SendCases(Head(_write_queue)) :
                        WriteOutcome(Head(_write_queue), kc[1], kc[2])
                 ELSE /\ wTask' = "failed"
                      /\ UNCHANGED <<sending, sent, defunctCalls, nSendErr, wFut>>
  /\ UNCHANGED <<reactorVars, pushVars, timerVars, ctorPc, sock, _read_watcher, _write_watcher,
                 rFut, rTask, ready, lock, is_closed, connected_event, closePc,
                 toPush, _iobuf, pushed, pushing, before, enqueued, received, flips,
                 cancelReq, closeErrors, closeByRead, procCalls, closeCalls,
                 nRecv, nWant, nEof, nRecvErr, lastRecv>>

\* next_msg = yield from self._write_queue.get(): suspends on an empty queue;
\* if next_msg: yield from self._loop.sock_sendall(self._socket, next_msg)
WriteGet ==
  /\ wTask = "run"
  /\ sending = <<>>
  /\ IF _write_queue = <<>>
       THEN /\ wTask' = "getwait"
            /\ UNCHANGED <<_write_queue, sending, sent, defunctCalls, nSendErr, wFut>>
       ELSE /\ _write_queue' = Tail(_write_queue)
            /\ IF Head(_write_queue) # <<>>
                 THEN \E kc \in SendCases(Head(_write_queue)) :
                        WriteOutcome(Head(_write_queue), kc[1], kc[2])
                 ELSE UNCHANGED <<wTask, sending, sent, defunctCalls, nSendErr, wFut>>
  /\ UNCHANGED <<reactorVars, pushVars, timerVars, ctorPc, sock, _read_watcher, _write_watcher,
                 rFut, rTask, ready, lock, is_closed, connected_event, closePc,
                 toPush, _iobuf, pushed, pushing, before, enqueued, received, flips,
                 cancelReq, closeErrors, closeByRead, procCalls, closeCalls,
                 nRecv, nWant, nEof, nRecvErr, lastRecv>>

\* sock_sendall goes on with the rest of next_msg once the task is resumed.
WriteSend ==
  /\ wTask = "run"
  /\ sending # <<>>
  /\ \E kc \in SendCases(sending) : WriteOutcome(sending, kc[1], kc[2])
  /\ UNCHANGED <<reactorVars, pushVars, timerVars, ctorPc, sock, _write_queue, _read_watcher, _write_watcher,
                 rFut, rTask, ready, lock, is_closed, connected_event, closePc,
                 toPush, _iobuf, pushed, pushing, before, enqueued, received, flips,
                 cancelReq, closeErrors, closeByRead, procCalls, closeCalls,
                 nRecv, nWant, nEof, nRecvErr, lastRecv>>

\* The selector reports the socket writable: the suspended sock_sendall goes on.
SockWritable ==
  /\ wTask = "sendwait"
  /\ wTask' = "sched"
  /\ ready' = CallSoon(ready, CB("step_write", <<>>))
  /\ UNCHANGED <<reactorVars, pushVars, timerVars, ctorPc, sock, _write_queue, _read_watcher, _write_watcher,
                 rFut, wFut, rTask, lock, is_closed, connected_event, closePc,
                 toPush, sending, sent, _iobuf, histVars>>

handle_write ==
  \/ SpawnWrite
  \/ StepWrite
  \/ CancelWrite
  \/ WriteGet
  \/ WriteSend
  \/ SockWritable

\* ====================================================================
\*  handle_read
\* ====================================================================

SpawnRead ==
  /\ NextCallback("spawn_read")
  /\ rTask' = "sched"
  /\ ready' = IF rFut = "cancelled"
                THEN CallSoon(CallSoon(Tail(ready), CB("step_read", <<>>)),
                              CB("cancel_read", <<>>))
                ELSE CallSoon(Tail(ready), CB("step_read", <<>>))
  /\ UNCHANGED <<reactorVars, pushVars, timerVars, ctorPc, sock, _write_queue, _read_watcher, _write_watcher,
                 rFut, wFut, wTask, lock, is_closed, connected_event, closePc,
                 toPush, sending, sent, _iobuf, histVars>>

StepRead ==
  /\ NextCallback("step_read")
  /\ ready' = Tail(ready)
  /\ rTask' = IF rTask = "sched" THEN "run" ELSE rTask
  /\ UNCHANGED <<reactorVars, pushVars, timerVars, ctorPc, sock, _write_queue, _read_watcher, _write_watcher,
                 rFut, wFut, wTask, lock, is_closed, connected_event, closePc,
                 toPush, sending, sent, _iobuf, histVars>>

CancelRead ==
  /\ NextCallback("cancel_read")
  /\ ready' = Tail(ready)
  /\ rTask' = IF rTask \in {"sched", "wait"} THEN "cancelled" ELSE rTask
  /\ UNCHANGED <<reactorVars, pushVars, timerVars, ctorPc, sock, _write_queue, _read_watcher, _write_watcher,
                 rFut, wFut, wTask, lock, is_closed, connected_event, closePc,
                 toPush, sending, sent, _iobuf, histVars>>

\* self.process_io_buffer() of the base class: it takes the complete frames
\* out of _iobuf; here all of the buffer (whole) or nothing.
process_io_buffer(buf, whole) == IF whole THEN <<>> ELSE buf

\* The socket has nothing to read: sock_recv suspends the task.
RecvBlocks ==
  /\ rTask = "run"
  /\ rTask' = "wait"
  /\ UNCHANGED <<reactorVars, pushVars, timerVars, ctorPc, sock, _write_queue, _read_watcher, _write_watcher,
                 rFut, wFut, wTask, ready, lock, is_closed, connected_event, closePc,
                 toPush, sending, sent, _iobuf, histVars>>

\* The selector reports the socket readable: the suspended sock_recv goes on.
SockReadable ==
  /\ rTask = "wait"
  /\ rTask' = "sched"
  /\ ready' = CallSoon(ready, CB("step_read", <<>>))
  /\ UNCHANGED <<reactorVars, pushVars, timerVars, ctorPc, sock, _write_queue, _read_watcher, _write_watcher,
                 rFut, wFut, wTask, lock, is_closed, connected_event, closePc,
                 toPush, sending, sent, _iobuf, histVars>>

\* (mutation of AfterRecv: process_io_buffer() is called only once _iobuf
\* holds more than the bytes just received)
AfterRecvLate(buf, whole) ==
  /\ _iobuf' = IF buf # <<>> /\ _iobuf # <<>>
                 THEN process_io_buffer(_iobuf \o buf, whole)
                 ELSE _iobuf \o buf
  /\ received' = received \o buf
  /\ IF buf # <<>>
       THEN /\ procCalls' = IF _iobuf # <<>> THEN procCalls + 1 ELSE procCalls
            /\ UNCHANGED <<rTask, closePc, closeByRead>>
       ELSE /\ rTask' = "close"
            /\ closePc' = [closePc EXCEPT ![LoopThread] = "enter"]
            /\ closeByRead' = closeByRead + 1
            /\ UNCHANGED procCalls

\* (mutation of AfterRecv: the test is `if self._iobuf.tell()` alone)
AfterRecvTellOnly(buf, whole) ==
  /\ _iobuf' = IF Len(_iobuf \o buf) # 0
                 THEN process_io_buffer(_iobuf \o buf, whole)
                 ELSE _iobuf \o buf
  /\ received' = received \o buf
  /\ IF Len(_iobuf \o buf) # 0
       THEN /\ procCalls' = procCalls + 1
            /\ UNCHANGED <<rTask, closePc, closeByRead>>
       ELSE /\ rTask' = "close"
            /\ closePc' = [closePc EXCEPT ![LoopThread] = "enter"]
            /\ closeByRead' = closeByRead + 1
            /\ UNCHANGED procCalls

\* The lines after the try statement (180-184), buf written to _iobuf:
\* process_io_buffer() if buf and self._iobuf.tell(), else close() and return.
AfterRecv(buf, whole) ==
  /\ _iobuf' = IF buf # <<>> /\ Len(_iobuf \o buf) # 0
                 THEN process_io_buffer(_iobuf \o buf, whole)
                 ELSE _iobuf \o buf
  /\ received' = received \o buf
  /\ IF buf # <<>> /\ Len(_iobuf \o buf) # 0
       THEN /\ procCalls' = procCalls + 1
            /\ UNCHANGED <<rTask, closePc, closeByRead>>
       ELSE /\ rTask' = "close"
            /\ closePc' = [closePc EXCEPT ![LoopThread] = "enter"]
            /\ closeByRead' = closeByRead + 1
            /\ UNCHANGED procCalls

\* buf = yield from sock_recv(...) returns: data, or b'' when the peer closed.
RecvReturns ==
  /\ rTask = "run"
  /\ \/ /\ nRecv < MaxRecv
        /\ nRecv' = nRecv + 1
        /\ lastRecv' = "data"
        /\ \E whole \in BOOLEAN : AfterRecv(<<nRecv + 1>>, whole)
        /\ UNCHANGED nEof
     \/ /\ nEof' = nEof + 1
        /\ lastRecv' = "eof"
        /\ AfterRecv(<<>>, FALSE)
        /\ UNCHANGED nRecv
  /\ UNCHANGED <<reactorVars, pushVars, timerVars, ctorPc, sock, _write_queue, _read_watcher, _write_watcher,
                 rFut, wFut, wTask, ready, lock, is_closed, connected_event,
                 toPush, sending, sent, pushed, pushing, before, enqueued, flips,
                 cancelReq, closeErrors, defunctCalls, closeCalls,
                 nWant, nRecvErr, nSendErr>>

\* (mutation of OnSSLWant: the error reaches the socket.error clause)
OnSSLWantAsError ==
  /\ defunctCalls' = [defunctCalls EXCEPT !.read = @ + 1]
  /\ rTask' = "failed"
  /\ rFut' = FutAfterTaskEnd(rFut)
  /\ UNCHANGED ready

\* (mutation of OnSSLWant: the receive is retried without a yield)
OnSSLWantBusy ==
  /\ rTask' = "run"
  /\ UNCHANGED <<ready, defunctCalls, rFut>>

\* except (ssl.SSLWantWriteError, ssl.SSLWantReadError): yield; continue
OnSSLWant ==
  /\ rTask' = "sched"
  /\ ready' = CallSoon(ready, CB("step_read", <<>>))
  /\ UNCHANGED <<defunctCalls, rFut>>

\* (mutation of OnSocketError: after defunct(err) the receive is retried)
OnSocketErrorRetries ==
  /\ defunctCalls' = [defunctCalls EXCEPT !.read = @ + 1]
  /\ rTask' = "sched"
  /\ ready' = CallSoon(ready, CB("step_read", <<>>))
  /\ UNCHANGED rFut

\* except socket.error as err: self.defunct(err); return
OnSocketError ==
  /\ defunctCalls' = [defunctCalls EXCEPT !.read = @ + 1]
  /\ rTask' = "failed"
  /\ rFut' = FutAfterTaskEnd(rFut)
  /\ UNCHANGED ready

\* sock_recv raises: an SSLWant* error (want) or another socket.error.
RecvRaises ==
  /\ rTask = "run"
  /\ \/ /\ nWant < MaxWant
        /\ nWant' = nWant + 1
        /\ lastRecv' = "want"
        /\ OnSSLWant
        /\ UNCHANGED nRecvErr
     \/ /\ nRecvErr' = nRecvErr + 1
        /\ lastRecv' = "error"
        /\ OnSocketError
        /\ UNCHANGED nWant
  /\ UNCHANGED <<reactorVars, pushVars, timerVars, ctorPc, sock, _write_queue, _read_watcher, _write_watcher,
                 wFut, wTask, lock, is_closed, connected_event, closePc,
                 toPush, sending, sent, _iobuf, pushed, pushing, before, enqueued,
                 received, flips, cancelReq, closeErrors, closeByRead, procCalls,
                 closeCalls, nRecv, nEof, nSendErr>>

\* sock_recv raises an SSLWant* error once more (beyond MaxWant these are
\* no longer counted).
RecvWantAgain ==
  /\ rTask = "run"
  /\ nWant = MaxWant
  /\ lastRecv' = "want"
  /\ OnSSLWant
  /\ UNCHANGED <<reactorVars, pushVars, timerVars, ctorPc, sock, _write_queue, _read_watcher, _write_watcher,
                 wFut, wTask, lock, is_closed, connected_event, closePc,
                 toPush, sending, sent, _iobuf, pushed, pushing, before, enqueued,
                 received, flips, cancelReq, closeErrors, closeByRead, procCalls,
                 closeCalls, nRecv, nWant, nEof, nRecvErr, nSendErr>>

handle_read ==
  \/ SpawnRead
  \/ StepRead
  \/ CancelRead
  \/ RecvBlocks
  \/ SockReadable
  \/ RecvReturns
  \/ RecvRaises

\* ====================================================================
\*  close
\* ====================================================================

\* close() returns to c or raises in c.  When handle_read is the caller it
\* ends there: it returns after close(), or ends with close()'s exception.
CloseLeaves(c, how) ==
  /\ closePc' = [closePc EXCEPT ![c] = "idle"]
  /\ rTask' = IF c = LoopThread THEN how ELSE rTask
  /\ rFut' = IF c = LoopThread THEN FutAfterTaskEnd(rFut) ELSE rFut

\* A caller that holds the connection calls close() (line 125).
CloseCall(c) ==
  /\ c \in Callers
  /\ ctorPc = "done"
  /\ closePc[c] = "idle"
  /\ closeCalls < MaxClose
  /\ closePc' = [closePc EXCEPT ![c] = "enter"]
  /\ closeCalls' = closeCalls + 1
  /\ UNCHANGED <<reactorVars, pushVars, timerVars, ctorPc, sock, _write_queue, _read_watcher, _write_watcher,
                 rFut, wFut, rTask, wTask, ready, lock, is_closed, connected_event,
                 toPush, sending, sent, _iobuf, pushed, pushing, before, enqueued,
                 received, flips, cancelReq, closeErrors, closeByRead, defunctCalls,
                 procCalls, nRecv, nWant, nEof, nRecvErr, nSendErr, lastRecv>>

\* self.lock can be taken by c
LockFree(c) == lock = Free

\* with self.lock: entered
CloseLock(c) ==
  /\ closePc[c] = "enter"
  /\ LockFree(c)
  /\ lock' = c
  /\ closePc' = [closePc EXCEPT ![c] = "check"]
  /\ UNCHANGED <<reactorVars, pushVars, timerVars, ctorPc, sock, _write_queue, _read_watcher, _write_watcher,
                 rFut, wFut, rTask, wTask, ready, is_closed, connected_event,
                 toPush, sending, sent, _iobuf, histVars>>

\* if self.is_closed: return / self.is_closed = True; the lock is released
CloseCheck(c) ==
  /\ closePc[c] = "check"
  /\ lock' = Free
  /\ IF is_closed
       THEN /\ CloseLeaves(c, "closed")
            /\ UNCHANGED <<is_closed, flips>>
       ELSE /\ is_closed' = TRUE
            /\ flips' = flips + 1
            /\ closePc' = [closePc EXCEPT ![c] = "cancel_write"]
            /\ UNCHANGED <<rTask, rFut>>
  /\ UNCHANGED <<reactorVars, pushVars, timerVars, ctorPc, sock, _write_queue, _read_watcher, _write_watcher,
                 wFut, wTask, ready, connected_event, toPush, sending, sent, _iobuf,
                 pushed, pushing, before, enqueued, received, cancelReq, closeErrors,
                 closeByRead, defunctCalls, procCalls, closeCalls,
                 nRecv, nWant, nEof, nRecvErr, nSendErr, lastRecv>>

\* self._write_watcher.cancel(): AttributeError while the attribute is not
\* yet assigned (or None).
CloseCancelWrite(c) ==
  /\ closePc[c] = "cancel_write"
  /\ IF _write_watcher = "unset"
       THEN /\ closeErrors' = closeErrors + 1
            /\ CloseLeaves(c, "crashed")
            /\ UNCHANGED <<cancelReq, wFut, ready>>
       ELSE /\ cancelReq' = [cancelReq EXCEPT !.write = @ + 1]
            /\ wFut' = FutCancel(wFut)
            /\ ready' = CancelHandOff(wFut, wTask, ready, "cancel_write")
            /\ closePc' = [closePc EXCEPT ![c] = "cancel_read"]
            /\ UNCHANGED <<closeErrors, rTask, rFut>>
  /\ UNCHANGED <<reactorVars, pushVars, timerVars, ctorPc, sock, _write_queue, _read_watcher, _write_watcher,
                 wTask, lock, is_closed, connected_event, toPush, sending, sent, _iobuf,
                 pushed, pushing, before, enqueued, received, flips, closeByRead,
                 defunctCalls, procCalls, closeCalls, nRecv, nWant, nEof, nRecvErr,
                 nSendErr, lastRecv>>

\* self._read_watcher.cancel()
CloseCancelRead(c) ==
  /\ closePc[c] = "cancel_read"
  /\ IF _read_watcher = "unset"
       THEN /\ closeErrors' = closeErrors + 1
            /\ CloseLeaves(c, "crashed")
            /\ UNCHANGED <<cancelReq, ready>>
       ELSE /\ cancelReq' = [cancelReq EXCEPT !.read = @ + 1]
            /\ rFut' = FutCancel(rFut)
            /\ ready' = CancelHandOff(rFut, rTask, ready, "cancel_read")
            /\ closePc' = [closePc EXCEPT ![c] = "set_event"]
            /\ UNCHANGED <<closeErrors, rTask>>
  /\ UNCHANGED <<reactorVars, pushVars, timerVars, ctorPc, sock, _write_queue, _read_watcher, _write_watcher,
                 wFut, wTask, lock, is_closed, connected_event, toPush, sending, sent,
                 _iobuf, pushed, pushing, before, enqueued, received, flips,
                 closeByRead, defunctCalls, procCalls, closeCalls, nRecv, nWant, nEof,
                 nRecvErr, nSendErr, lastRecv>>

\* self.connected_event.set(); close() returns
CloseSetEvent(c) ==
  /\ closePc[c] = "set_event"
  /\ connected_event' = TRUE
  /\ CloseLeaves(c, "closed")
  /\ UNCHANGED <<reactorVars, pushVars, timerVars, ctorPc, sock, _write_queue, _read_watcher, _write_watcher,
                 wFut, wTask, ready, lock, is_closed, toPush, sending, sent, _iobuf,
                 histVars>>

close(c) ==
  \/ CloseCall(c)
  \/ CloseLock(c)
  \/ CloseCheck(c)
  \/ CloseCancelWrite(c)
  \/ CloseCancelRead(c)
  \/ CloseSetEvent(c)

\* ====================================================================
\*  AsyncioTimer / create_timer
\* ====================================================================

\* create_timer(timeout, callback) called by thread c: AsyncioTimer.__init__
\* leaves _call_delayed_coro on the loop with run_coroutine_threadsafe and
\* keeps the concurrent future in self._handle.
create_timer(c) ==
  /\ madeBy = "none"
  /\ \E d \in 0..MaxDelay : timeout' = d
  /\ madeBy' = c
  /\ madeAt' = now
  /\ _handle' = "pending"
  /\ ready' = CallSoon(ready, CB("spawn_timer", <<>>))
  /\ UNCHANGED <<reactorVars, pushVars, histVars, ctorPc, sock, _write_queue, _read_watcher,
                 _write_watcher, rFut, wFut, rTask, wTask, lock, is_closed,
                 connected_event, closePc, toPush, sending, sent, _iobuf,
                 now, tTask, deadline, dueQueued, callbackRuns, callbackAt, callbackBy,
                 cancelCalls, cancelHit, queries, notImplemented>>

\* The callback run_coroutine_threadsafe left on the loop: the task is made
\* and its first step scheduled; a future cancelled before that hands
\* task.cancel to the loop, behind the step.
SpawnTimer ==
  /\ NextCallback("spawn_timer")
  /\ tTask' = "sched"
  /\ ready' = IF _handle = "cancelled"
                THEN CallSoon(CallSoon(Tail(ready), CB("step_timer", <<>>)),
                              CB("cancel_timer", <<>>))
                ELSE CallSoon(Tail(ready), CB("step_timer", <<>>))
  /\ UNCHANGED <<reactorVars, pushVars, histVars, ctorPc, sock, _write_queue, _read_watcher,
                 _write_watcher, rFut, wFut, rTask, wTask, lock, is_closed,
                 connected_event, closePc, toPush, sending, sent, _iobuf,
                 now, madeBy, timeout, madeAt, _handle, deadline, dueQueued,
                 callbackRuns, callbackAt, callbackBy, cancelCalls, cancelHit,
                 queries, notImplemented>>

\* (mutation of _call_delayed_coro: callback() is called before the sleep)
CallbackBeforeSleep ==
  /\ ready' = Tail(ready)
  /\ IF tTask = "sched"
       THEN /\ callbackRuns' = callbackRuns + 1
            /\ callbackAt' = now
            /\ callbackBy' = callbackBy \cup {LoopThread}
            /\ tTask' = "done"
            /\ _handle' = FutAfterTaskEnd(_handle)
            /\ UNCHANGED deadline
       ELSE UNCHANGED <<tTask, deadline, callbackRuns, callbackAt, callbackBy, _handle>>

\* A step of the task running _call_delayed_coro (lines 50-52).  The first
\* step reaches asyncio.sleep(timeout): a zero delay yields for one turn of
\* the loop, another one waits for a call_later due at loop.time() + timeout.
\* The step after the sleep calls callback() and the task ends.  A step of a
\* cancelled task does nothing.
_call_delayed_coro ==
  /\ IF tTask = "sched"
       THEN /\ tTask' = IF timeout = 0 THEN "woken" ELSE "sleep"
            /\ deadline' = now + timeout
            /\ ready' = IF timeout = 0
                          THEN CallSoon(Tail(ready), CB("step_timer", <<>>))
                          ELSE Tail(ready)
            /\ UNCHANGED <<callbackRuns, callbackAt, callbackBy, _handle>>
       ELSE /\ ready' = Tail(ready)
            /\ IF tTask = "woken"
                 THEN /\ callbackRuns' = callbackRuns + 1
                      /\ callbackAt' = now
                      /\ callbackBy' = callbackBy \cup {LoopThread}
                      /\ tTask' = "done"
                      /\ _handle' = FutAfterTaskEnd(_handle)
                      /\ UNCHANGED deadline
                 ELSE UNCHANGED <<tTask, deadline, callbackRuns, callbackAt,
                                  callbackBy, _handle>>

StepTimer ==
  /\ NextCallback("step_timer")
  /\ _call_delayed_coro
  /\ UNCHANGED <<reactorVars, pushVars, histVars, ctorPc, sock, _write_queue, _read_watcher,
                 _write_watcher, rFut, wFut, rTask, wTask, lock, is_closed,
                 connected_event, closePc, toPush, sending, sent, _iobuf,
                 now, madeBy, timeout, madeAt, dueQueued, cancelCalls, cancelHit,
                 queries, notImplemented>>

\* The loop finds the call_later of the sleep due and puts it with its ready
\* callbacks.
TimerDue ==
  /\ tTask = "sleep"
  /\ ~dueQueued
  /\ now >= deadline
  /\ dueQueued' = TRUE
  /\ ready' = CallSoon(ready, CB("timer_due", <<>>))
  /\ UNCHANGED <<reactorVars, pushVars, histVars, ctorPc, sock, _write_queue, _read_watcher,
                 _write_watcher, rFut, wFut, rTask, wTask, lock, is_closed,
                 connected_event, closePc, toPush, sending, sent, _iobuf,
                 now, madeBy, timeout, madeAt, _handle, tTask, deadline,
                 callbackRuns, callbackAt, callbackBy, cancelCalls, cancelHit,
                 queries, notImplemented>>

\* The loop runs it: the sleep's future gets its result and the task's next
\* step is scheduled, unless the sleep was cancelled.
TimerWake ==
  /\ NextCallback("timer_due")
  /\ IF tTask = "sleep"
       THEN /\ tTask' = "woken"
            /\ ready' = CallSoon(Tail(ready), CB("step_timer", <<>>))
       ELSE /\ ready' = Tail(ready)
            /\ UNCHANGED tTask
  /\ UNCHANGED <<reactorVars, pushVars, histVars, ctorPc, sock, _write_queue, _read_watcher,
                 _write_watcher, rFut, wFut, rTask, wTask, lock, is_closed,
                 connected_event, closePc, toPush, sending, sent, _iobuf,
                 now, madeBy, timeout, madeAt, _handle, deadline, dueQueued,
                 callbackRuns, callbackAt, callbackBy, cancelCalls, cancelHit,
                 queries, notImplemented>>

\* (mutation of TaskCancel: a task whose sleep is over is not cancelled)
TaskCancelMissesWoken(task) ==
  IF task \in {"sched", "sleep"} THEN "cancelled" ELSE task

\* task.cancel() of the task self._handle.cancel() is chained to: a task that
\* has not ended gets CancelledError at its suspension point, before
\* callback() is reached.
TaskCancel(task) ==
  IF task \in {"sched", "sleep", "woken"} THEN "cancelled" ELSE task

\* The loop runs the task.cancel handed to it.
CancelTimer ==
  /\ NextCallback("cancel_timer")
  /\ ready' = Tail(ready)
  /\ tTask' = TaskCancel(tTask)
  /\ cancelHit' = (cancelHit \/ tTask \in {"sched", "sleep", "woken"})
  /\ UNCHANGED <<reactorVars, pushVars, histVars, ctorPc, sock, _write_queue, _read_watcher,
                 _write_watcher, rFut, wFut, rTask, wTask, lock, is_closed,
                 connected_event, closePc, toPush, sending, sent, _iobuf,
                 now, madeBy, timeout, madeAt, _handle, deadline, dueQueued,
                 callbackRuns, callbackAt, callbackBy, cancelCalls,
                 queries, notImplemented>>

\* AsyncioTimer.cancel() called by thread c: self._handle.cancel()
TimerCancel(c) ==
  /\ madeBy # "none"
  /\ cancelCalls < MaxCancel
  /\ cancelCalls' = cancelCalls + 1
  /\ _handle' = FutCancel(_handle)
  /\ ready' = CancelHandOff(_handle, tTask, ready, "cancel_timer")
  /\ UNCHANGED <<reactorVars, pushVars, histVars, ctorPc, sock, _write_queue, _read_watcher,
                 _write_watcher, rFut, wFut, rTask, wTask, lock, is_closed,
                 connected_event, closePc, toPush, sending, sent, _iobuf,
                 now, madeBy, timeout, madeAt, tTask, deadline, dueQueued,
                 callbackRuns, callbackAt, callbackBy, cancelHit,
                 queries, notImplemented>>

\* (mutation of RaiseNotImplemented: the call fires the timer at once)
FiresNow ==
  /\ notImplemented' = notImplemented + 1
  /\ callbackRuns' = callbackRuns + 1
  /\ tTask' = "done"
  /\ UNCHANGED <<_handle, ready, deadline, dueQueued, callbackAt, callbackBy>>

\* raise NotImplementedError(...): the whole body of .end and of finish()
RaiseNotImplemented ==
  /\ notImplemented' = notImplemented + 1
  /\ UNCHANGED <<_handle, tTask, ready, deadline, dueQueued, callbackRuns,
                 callbackAt, callbackBy>>

\* timer.end read by thread c (lines 37-40)
end(c) ==
  /\ madeBy # "none"
  /\ queries < MaxQuery
  /\ queries' = queries + 1
  /\ RaiseNotImplemented
  /\ UNCHANGED <<reactorVars, pushVars, histVars, ctorPc, sock, _write_queue, _read_watcher,
                 _write_watcher, rFut, wFut, rTask, wTask, lock, is_closed,
                 connected_event, closePc, toPush, sending, sent, _iobuf,
                 now, madeBy, timeout, madeAt, cancelCalls, cancelHit>>

\* timer.finish() called by thread c (lines 63-67)
finish(c) ==
  /\ madeBy # "none"
  /\ queries < MaxQuery
  /\ queries' = queries + 1
  /\ RaiseNotImplemented
  /\ UNCHANGED <<reactorVars, pushVars, histVars, ctorPc, sock, _write_queue, _read_watcher,
                 _write_watcher, rFut, wFut, rTask, wTask, lock, is_closed,
                 connected_event, closePc, toPush, sending, sent, _iobuf,
                 now, madeBy, timeout, madeAt, cancelCalls, cancelHit>>

\* loop.time() goes on (followed up to MaxNow, and up to the deadline of a
\* sleep that waits for it).
Tick ==
  /\ now < MaxNow \/ (tTask = "sleep" /\ now < deadline)
  /\ now' = now + 1
  /\ UNCHANGED <<reactorVars, pushVars, histVars, connVars,
                 madeBy, timeout, madeAt, _handle, tTask, deadline, dueQueued,
                 callbackRuns, callbackAt, callbackBy, cancelCalls, cancelHit,
                 queries, notImplemented>>

AsyncioTimer ==
  \/ SpawnTimer
  \/ StepTimer
  \/ TimerDue
  \/ TimerWake
  \/ CancelTimer
  \/ \E c \in Callers \cup {LoopThread} : TimerCancel(c) \/ end(c) \/ finish(c)

\* ====================================================================
\*  One connection of a process whose reactor is initialized
\* ====================================================================

\* The class after initialize_reactor() in the importing process.
ReactorRunning ==
  /\ getpid = ImportPid
  /\ _pid = ImportPid
  /\ _loop = ImportPid
  /\ _loop_thread = NewThread(ImportPid, ImportPid)
  /\ _lock = Free
  /\ policyLoop = ImportPid
  /\ alive = {NewThread(ImportPid, ImportPid)}
  /\ irPc = [t \in Threads |-> "idle"]
  /\ irCalls = 1
  /\ irReturned = 1

InitPushAlone == ReactorRunning /\ InitConnIdle /\ InitPush /\ InitTimerIdle

NextPush == PushAlone

SpecPush == InitPushAlone /\ [][NextPush]_vars

Init == ReactorRunning /\ InitConnIdle /\ InitPushIdle /\ InitTimerIdle

\* The connection is constructed, the peer sends data, closes or resets, the
\* socket accepts or refuses what the write loop sends, and the callers and
\* the read loop close the connection; the callers push nothing after the
\* options message.
Next ==
  \/ __init__
  \/ QueuePut
  \/ handle_write
  \/ handle_read
  \/ \E c \in Callers \cup {LoopThread} : close(c)

Spec == Init /\ [][Next]_vars

\* The connection is constructed, two callers push payloads, the socket
\* accepts or refuses what the write loop sends, and one caller closes the
\* connection once; the peer sends nothing, so the read loop stays suspended.
NextWrite ==
  \/ __init__
  \/ \E c \in Callers : push(c)
  \/ QueuePut
  \/ handle_write
  \/ SpawnRead
  \/ StepRead
  \/ CancelRead
  \/ RecvBlocks
  \/ (closeCalls = 0 /\ CloseCall("t1"))
  \/ CloseLock("t1")
  \/ CloseCheck("t1")
  \/ CloseCancelWrite("t1")
  \/ CloseCancelRead("t1")
  \/ CloseSetEvent("t1")

SpecWrite == Init /\ [][NextWrite]_vars

\* The connection is constructed and two callers push payloads; the socket
\* accepts or refuses what the write loop sends; nobody closes the
\* connection and the peer sends nothing.
NextSend ==
  \/ __init__
  \/ \E c \in Callers : push(c)
  \/ QueuePut
  \/ SpawnWrite
  \/ StepWrite
  \/ WriteGet
  \/ WriteSend
  \/ SockWritable
  \/ SpawnRead
  \/ StepRead
  \/ RecvBlocks

\* The loop thread runs forever, so the callback at the head of its ready
\* callbacks is run in the end and a coroutine it is inside goes on to its
\* next suspension point; the socket becomes writable in the end, that is,
\* a sock_sendall that is resumed again and again gets bytes accepted.
\* Nothing is required of the callers.
WriteFairness ==
  /\ WF_vars(QueuePut)
  /\ WF_vars(SpawnWrite)
  /\ WF_vars(StepWrite)
  /\ WF_vars(WriteGet)
  /\ WF_vars(WriteSend)
  /\ WF_vars(SockWritable)
  /\ SF_vars(WriteSend /\ sent' # sent)
  /\ WF_vars(SpawnRead)
  /\ WF_vars(StepRead)
  /\ WF_vars(RecvBlocks)

LiveWrite == Init /\ [][NextSend]_vars /\ WriteFairness

\* Every sock_recv raises an SSLWant* error.
RecvWants ==
  \/ (RecvRaises /\ lastRecv' = "want")
  \/ RecvWantAgain

\* A connection whose receives raise SSLWant* errors, and nothing else, for
\* as long as the read loop runs, next to its write loop and a timer on the same loop; nobody
\* closes the connection or cancels the timer.
NextWant ==
  \/ __init__
  \/ QueuePut
  \/ SpawnWrite
  \/ StepWrite
  \/ WriteGet
  \/ WriteSend
  \/ SockWritable
  \/ SpawnRead
  \/ StepRead
  \/ RecvWants
  \/ \E c \in Callers : create_timer(c)
  \/ SpawnTimer
  \/ StepTimer
  \/ TimerDue
  \/ TimerWake
  \/ Tick

\* The loop thread runs forever (as in WriteFairness): a sock_recv that is
\* tried comes back, here with an error.
WantFairness ==
  /\ WF_vars(QueuePut)
  /\ WF_vars(SpawnWrite)
  /\ WF_vars(StepWrite)
  /\ WF_vars(WriteGet)
  /\ WF_vars(WriteSend)
  /\ WF_vars(SockWritable)
  /\ SF_vars(WriteSend /\ sent' # sent)
  /\ WF_vars(SpawnRead)
  /\ WF_vars(StepRead)
  /\ WF_vars(RecvWants)
  /\ WF_vars(SpawnTimer)
  /\ WF_vars(StepTimer)
  /\ WF_vars(TimerDue)
  /\ WF_vars(TimerWake)
  /\ WF_vars(Tick)

LiveWant == Init /\ [][NextWant]_vars /\ WantFairness

\* One timer of a process whose reactor is initialized: any thread makes it,
\* any thread cancels it or queries it, and time goes on.
NextTimer ==
  \/ \E c \in Callers \cup {LoopThread} : create_timer(c)
  \/ AsyncioTimer
  \/ Tick

SpecTimer == Init /\ [][NextTimer]_vars

\* The loop thread runs forever: a ready callback is run in the end, a due
\* call_later is found due in the end, and time goes on.
LoopFairness ==
  /\ WF_vars(SpawnTimer)
  /\ WF_vars(StepTimer)
  /\ WF_vars(TimerDue)
  /\ WF_vars(TimerWake)
  /\ WF_vars(CancelTimer)
  /\ WF_vars(Tick)

LiveTimer == Init /\ [][NextTimer]_vars /\ LoopFairness

\* ====================================================================
\*  Properties
\* ====================================================================

IsPrefix(s, t) == Len(s) <= Len(t) /\ SubSeq(t, 1, Len(s)) = s

\* The push a byte of a payload belongs to, and its place in the payload.
PushOf(b) == b \div 10
PlaceOf(b) == b % 10

\* C1 (SpecWrite).  Whatever the payload sizes, the bytes the write loop hands
\* to the socket keep the order of the pushes: no byte of a push is sent
\* before a byte of a push that had returned when it was invoked, a byte of a
\* push is sent only after every byte of such an earlier push, the bytes of
\* one payload are sent in payload order, and when every push was invoked
\* after the one before it returned, the bytes sent are a prefix of the
\* concatenation of the payloads.
C1_PushOrderPreserved ==
  /\ \A i, j \in 1..Len(sent) : i < j =>
       /\ <<PushOf(sent[j]), PushOf(sent[i])>> \notin before
       /\ PushOf(sent[i]) = PushOf(sent[j]) => PlaceOf(sent[i]) < PlaceOf(sent[j])
  /\ \A pq \in before :
       (\E j \in 1..Len(sent) : PushOf(sent[j]) = pq[2]) =>
         \A k \in 1..Len(pushed[pq[1]]) : \E i \in 1..Len(sent) : sent[i] = pushed[pq[1]][k]
  /\ (\A i, j \in 1..Len(pushed) : i < j => <<i, j>> \in before) =>
       IsPrefix(sent, Concat(pushed))

\* Two payloads longer than out_buffer_size, pushed one after the other
\* behind the options message, have been sent in full.
C1_Witness ==
  /\ Len(pushed) = 3
  /\ <<2, 3>> \in before
  /\ Len(pushed[2]) > OutBufferSize
  /\ Len(pushed[3]) > OutBufferSize
  /\ sent = Concat(pushed)

\* C2 (SpecPush).  For every payload and every out_buffer_size >= 1, push
\* hands over chunks of at most out_buffer_size bytes whose concatenation in
\* order is the payload: ceil(len / out_buffer_size) chunks for a payload
\* longer than out_buffer_size, exactly one chunk otherwise.
C2_ChunksOfPayload ==
  pushPc = "returned" =>
    /\ \A k \in 1..Len(chunks) : Len(chunks[k]) <= out_buffer_size
    /\ Concat(chunks) = data
    /\ Len(data) > out_buffer_size =>
         Len(chunks) = (Len(data) + out_buffer_size - 1) \div out_buffer_size
    /\ Len(data) <= out_buffer_size => Len(chunks) = 1

\* Five bytes with out_buffer_size = 4 gave chunks of 4 bytes and 1 byte.
C2_Witness ==
  /\ pushPc = "returned"
  /\ Len(data) = 5
  /\ out_buffer_size = 4
  /\ Len(chunks) = 2
  /\ Len(chunks[1]) = 4
  /\ Len(chunks[2]) = 1

\* C6 (SpecWrite).  A socket error raised in handle_write makes it call
\* defunct once and end: from then on it sends nothing, takes no chunk from
\* the queue and calls defunct no more, whatever the queue holds or receives.
C6_WriteErrorEndsLoop ==
  /\ [](/\ defunctCalls.write = nSendErr
        /\ nSendErr <= 1
        /\ (nSendErr = 1) <=> (wTask = "failed"))
  /\ [][/\ nSendErr' # nSendErr =>
             /\ defunctCalls'.write = defunctCalls.write + 1
             /\ wTask' = "failed"
        /\ wTask = "failed" =>
             /\ wTask' = "failed"
             /\ sent' = sent
             /\ sending' = sending
             /\ IsPrefix(_write_queue, _write_queue')
             /\ defunctCalls' = defunctCalls]_vars

\* The write loop has failed after sending part of what was pushed, and
\* chunks are left in the queue.
C6_Witness ==
  /\ wTask = "failed"
  /\ defunctCalls.write = 1
  /\ sent # <<>>
  /\ Len(_write_queue) >= 2

NoCloseRunning == \A c \in Callers \cup {LoopThread} : closePc[c] = "idle"

\* C3 (Spec).  However many close() calls are made, by the callers and by
\* the read loop, one after the other or at once: is_closed goes from False
\* to True once, cancel() is called once on each watcher, and no call ends in
\* an error.
C3_CloseOnce ==
  /\ flips <= 1
  /\ cancelReq.read <= 1
  /\ cancelReq.write <= 1
  /\ closeErrors = 0
  /\ (is_closed /\ NoCloseRunning) =>
       (flips = 1 /\ cancelReq.read = 1 /\ cancelReq.write = 1)

\* C4 (Spec).  Once is_closed is True and no close() call is under way (the
\* call that set the flag has ended, and every later call returns at once),
\* cancel() has been called on both watchers and connected_event is set.
C4_ClosedIsSignalled ==
  (is_closed /\ NoCloseRunning) =>
    (connected_event /\ cancelReq.read >= 1 /\ cancelReq.write >= 1)

\* C5 (Spec).  A receive that returns b'' makes handle_read call close()
\* once and end: that receive writes nothing to _iobuf and calls neither
\* process_io_buffer nor defunct, and afterwards handle_read receives
\* nothing, processes nothing and does not call defunct.
C5_EofClosesOnce ==
  /\ [](/\ nEof <= 1
        /\ closeByRead = nEof
        /\ nEof = 1 => rTask \in {"close", "closed", "crashed"})
  /\ [][/\ nEof' # nEof =>
             /\ rTask' = "close"
             /\ closeByRead' = closeByRead + 1
             /\ _iobuf' = _iobuf
             /\ procCalls' = procCalls
             /\ defunctCalls' = defunctCalls
        /\ nEof = 1 =>
             /\ rTask' \in {"close", "closed", "crashed"}
             /\ nRecv' = nRecv /\ nWant' = nWant /\ nRecvErr' = nRecvErr /\ nEof' = nEof
             /\ _iobuf' = _iobuf
             /\ procCalls' = procCalls
             /\ defunctCalls'.read = defunctCalls.read]_vars

\* The peer closed after sending data of which _iobuf still holds a part;
\* handle_read has called close() and ended.
C5_Witness ==
  /\ nEof = 1
  /\ nRecv >= 1
  /\ _iobuf # <<>>
  /\ rTask = "closed"
  /\ closeByRead = 1
  /\ defunctCalls.read = 0

\* C7 (Spec).  A socket error raised by a receive, other than SSLWant*, makes
\* handle_read call defunct once and end: nothing is written to _iobuf,
\* process_io_buffer is not called, no retry is scheduled, and afterwards
\* handle_read receives nothing.
C7_RecvErrorEndsLoop ==
  /\ [](/\ defunctCalls.read = nRecvErr
        /\ nRecvErr <= 1
        /\ (nRecvErr = 1) <=> (rTask = "failed"))
  /\ [][/\ nRecvErr' # nRecvErr =>
             /\ rTask' = "failed"
             /\ defunctCalls'.read = defunctCalls.read + 1
             /\ _iobuf' = _iobuf
             /\ procCalls' = procCalls
             /\ ready' = ready
        /\ rTask = "failed" =>
             /\ rTask' = "failed"
             /\ nRecv' = nRecv /\ nWant' = nWant /\ nRecvErr' = nRecvErr /\ nEof' = nEof
             /\ _iobuf' = _iobuf
             /\ procCalls' = procCalls
             /\ closeByRead' = closeByRead
             /\ defunctCalls'.read = defunctCalls.read]_vars

\* A receive raised a socket error after an earlier one had returned data;
\* handle_read has called defunct and ended, the connection is not closed.
C7_Witness ==
  /\ rTask = "failed"
  /\ lastRecv = "error"
  /\ nRecv >= 1
  /\ defunctCalls.read = 1
  /\ ~is_closed

\* C8 (Spec).  A receive that raises SSLWantReadError or SSLWantWriteError
\* leaves _iobuf as it is, calls neither defunct nor close nor
\* process_io_buffer, and schedules the next step of handle_read, which
\* retries the receive; a receive that returns data after that writes the
\* data to _iobuf, has it processed and goes on receiving.
C8_SSLWantRetries ==
  [][/\ nWant' # nWant =>
          /\ rTask' = "sched"
          /\ ready' = Append(ready, CB("step_read", <<>>))
          /\ _iobuf' = _iobuf
          /\ received' = received
          /\ procCalls' = procCalls
          /\ defunctCalls' = defunctCalls
          /\ closeByRead' = closeByRead
          /\ is_closed' = is_closed
     /\ (nWant >= 1 /\ nRecv' # nRecv) =>
          /\ received' = Append(received, nRecv')
          /\ _iobuf' \in {Append(_iobuf, nRecv'), <<>>}
          /\ procCalls' = procCalls + 1
          /\ rTask' = "run"]_vars

\* The only receive that returned data came after one that raised SSLWant*:
\* its data was processed and handle_read goes on.
C8_Witness ==
  /\ nWant = 1
  /\ nRecv = 1
  /\ lastRecv = "data"
  /\ received = <<1>>
  /\ procCalls = 1
  /\ rTask = "run"
  /\ defunctCalls.read = 0

\* C9 (SpecReactor).  In a process in which an initialize_reactor() call has
\* returned, one loop is recorded and one background thread has been
\* started, the recorded one, which runs that loop.
C9_OneLoopOneThread ==
  irReturned >= 1 =>
    /\ _loop # None
    /\ Cardinality(alive) = 1
    /\ _loop_thread \in alive
    /\ _loop_thread.loop = _loop

\* C10 (SpecReactor).  In a forked process in which an initialize_reactor()
\* call has returned, the recorded creator is this process, the loop is one
\* made in this process and a thread started in this process runs it.
C10_ForkMakesNewPair ==
  (irReturned >= 1 /\ getpid # ImportPid) =>
    /\ _pid = getpid
    /\ _loop = getpid
    /\ _loop_thread = NewThread(getpid, getpid)
    /\ _loop_thread \in alive

\* C11 (SpecTimer).  Whichever thread made the timer, callback() is called at
\* most once, by the loop thread only, and not before loop.time() has reached
\* the time of the create_timer call plus the delay; once the loop has run
\* the task's cancellation before the task ended, callback() is never called;
\* a cancel() call on a timer whose handle is finished or cancelled changes
\* nothing of the timer.
C11_TimerOnceAfterDelay ==
  /\ [](/\ callbackRuns <= 1
        /\ callbackBy \subseteq {LoopThread}
        /\ callbackRuns >= 1 => callbackAt >= madeAt + timeout
        /\ cancelHit => callbackRuns = 0)
  /\ [][(cancelCalls' # cancelCalls /\ _handle \in {"finished", "cancelled"}) =>
          UNCHANGED <<_handle, tTask, ready, deadline, dueQueued, callbackRuns,
                      callbackAt, callbackBy, cancelHit>>]_vars

\* A timer made by a caller thread with the longest delay has fired, and
\* cancel() was called on it twice after that.
C11_Witness ==
  /\ madeBy = "t1"
  /\ timeout = MaxDelay
  /\ callbackRuns = 1
  /\ callbackAt >= madeAt + MaxDelay
  /\ _handle = "finished"
  /\ cancelCalls = 2
  /\ ~cancelHit

\* C14 (LiveTimer).  Every read of .end and every finish() call ends in
\* NotImplementedError and changes nothing of the timer, whether it is
\* pending, fired or cancelled; a timer that is queried and never cancelled
\* still fires.
C14_QueriesNotImplemented ==
  /\ [](notImplemented = queries)
  /\ [][queries' # queries =>
          /\ notImplemented' = notImplemented + 1
          /\ UNCHANGED <<_handle, tTask, ready, deadline, dueQueued, callbackRuns,
                         callbackAt, callbackBy, cancelHit, timeout, madeAt>>]_vars
  /\ (queries >= 1 /\ _handle = "pending") ~> (callbackRuns = 1 \/ cancelCalls >= 1)

\* A timer queried twice while it was pending has fired after its delay.
C14_Witness ==
  /\ queries = 2
  /\ notImplemented = 2
  /\ cancelCalls = 0
  /\ timeout >= 1
  /\ callbackRuns = 1
  /\ callbackAt >= madeAt + timeout
  /\ _handle = "finished"

\* C12 (SpecWrite).  A push() call can make its next _push_chunk call in
\* every state of the connection, without waiting for anything; each such
\* call leaves one put of a chunk at the end of the loop's callbacks and
\* changes nothing else: not the queue itself, not is_closed, not the
\* watchers or their tasks, not what was sent, and it calls defunct never.
C12_PushOnlyEnqueues ==
  /\ [](\A c \in Callers :
          (ctorPc = "done" /\ (toPush[c] # <<>> \/ Len(pushed) < MaxPush + 1))
            => ENABLED push(c))
  /\ [][(pushed' # pushed \/ toPush' # toPush) =>
          /\ Len(ready') = Len(ready) + 1
          /\ SubSeq(ready', 1, Len(ready)) = ready
          /\ ready'[Len(ready')].op = "put"
          /\ UNCHANGED <<_write_queue, enqueued, is_closed, connected_event, lock,
                         _read_watcher, _write_watcher, rFut, wFut, rTask, wTask,
                         defunctCalls, nSendErr, sent, sending, closePc>>]_vars

\* The write loop has failed and the connection is closed; a push made a
\* _push_chunk call after close() had handed the read task's cancellation to
\* the loop, and chunks wait in the queue.
C12_Witness ==
  /\ wTask = "failed"
  /\ is_closed
  /\ _write_queue # <<>>
  /\ \E i, j \in 1..Len(ready) :
       i < j /\ ready[i].op = "cancel_read" /\ ready[j].op = "put"

\* The steps of __init__ in the order of the source
CtorOrder ==
  {<<"connect", "setblocking">>, <<"setblocking", "queue">>, <<"queue", "submit_read">>,
   <<"submit_read", "store_read">>, <<"store_read", "submit_write">>,
   <<"submit_write", "store_write">>, <<"store_write", "options">>,
   <<"options", "push_options">>, <<"options", "done">>, <<"push_options", "done">>}

\* C13 (SpecWrite).  __init__ goes through connect, setblocking, queue, read
\* loop submitted, write loop submitted, options message pushed, in this
\* order; no loop exists and nothing is put on the loop before the socket is
\* connected and non-blocking and the queue is made; the read loop is
\* submitted before the write loop and the options message is pushed after
\* both; the first chunk enqueued is the options message and the bytes sent
\* begin with it.
C13_CtorOrder ==
  /\ [](/\ (rFut # "none" \/ wFut # "none" \/ rTask # "none" \/ wTask # "none")
             => sock = "nonblocking"
        /\ (ready # <<>> \/ enqueued # <<>> \/ pushed # <<>>)
             => ctorPc \notin {"connect", "setblocking", "queue"}
        /\ wFut # "none" => rFut # "none"
        /\ pushed # <<>> => (wFut # "none" /\ pushed[1] = Payload(1, OptionsLen))
        /\ enqueued # <<>> => enqueued[1] = Head(PushChunks(Payload(1, OptionsLen), OutBufferSize))
        /\ IsPrefix(sent, Payload(1, OptionsLen)) \/ IsPrefix(Payload(1, OptionsLen), sent))
  /\ [][/\ ctorPc' # ctorPc => <<ctorPc, ctorPc'>> \in CtorOrder
        /\ sock' # sock => <<sock, sock'>> \in {<<"new", "connected">>,
                                                 <<"connected", "nonblocking">>}]_vars

\* The constructor has returned, callers have pushed, and everything was
\* sent: the options message first, the callers' bytes behind it.
C13_Witness ==
  /\ ctorPc = "done"
  /\ Len(pushed) >= 2
  /\ Len(sent) > OptionsLen
  /\ sent = Concat(pushed)

\* The payload a chunk belongs to (an empty chunk belongs to none: 0)
ChunkOf(chunk) == IF chunk = <<>> THEN 0 ELSE PushOf(chunk[1])

\* C15 (SpecWrite).  The chunks of a payload longer than out_buffer_size are
\* enqueued one after the other: no chunk of another such payload is
\* enqueued between two of them, also when the two push() calls run at once.
C15_ConcurrentPushContiguous ==
  \A i, j, k \in 1..Len(enqueued) :
    (/\ i < j /\ j < k
     /\ ChunkOf(enqueued[i]) # 0
     /\ ChunkOf(enqueued[i]) = ChunkOf(enqueued[k])
     /\ ChunkOf(enqueued[j]) # 0
     /\ Len(pushed[ChunkOf(enqueued[j])]) > OutBufferSize)
      => ChunkOf(enqueued[j]) = ChunkOf(enqueued[i])

\* C20 (SpecWrite).  When handle_write takes an empty chunk from the queue it
\* sends nothing, does not call defunct and goes on with the loop; what was
\* sent is always a prefix of the chunks enqueued, in order, the empty ones
\* contributing nothing.
C20_EmptyChunkSkipped ==
  /\ [](IsPrefix(sent, Concat(enqueued)))
  /\ [][(Len(_write_queue') < Len(_write_queue) /\ Head(_write_queue) = <<>>) =>
          /\ _write_queue' = Tail(_write_queue)
          /\ wTask' = "run"
          /\ UNCHANGED <<sent, sending, defunctCalls, nSendErr, wFut>>]_vars

\* An empty chunk was enqueued before a chunk with bytes; the write loop has
\* taken both, sent all the bytes and waits for the next chunk.
C20_Witness ==
  /\ \E i, j \in 1..Len(enqueued) : i < j /\ enqueued[i] = <<>> /\ enqueued[j] # <<>>
  /\ _write_queue = <<>>
  /\ sent = Concat(enqueued)
  /\ wTask = "getwait"
  /\ defunctCalls.write = 0

\* C18 (Spec).  Every receive that returns data appends exactly that data to
\* _iobuf, calls process_io_buffer() once, which leaves the buffer as it is
\* or takes frames out of it, and goes on with the loop without closing:
\* process_io_buffer() has been called once per such receive, and the bytes
\* written to _iobuf are those of the receives, in receive order.
C18_DataIsBufferedAndProcessed ==
  /\ [](/\ procCalls = nRecv
        /\ received = [k \in 1..nRecv |-> k])
  /\ [][nRecv' # nRecv =>
          /\ nRecv' = nRecv + 1
          /\ received' = Append(received, nRecv')
          /\ _iobuf' \in {Append(_iobuf, nRecv'), <<>>}
          /\ procCalls' = procCalls + 1
          /\ rTask' = "run"
          /\ UNCHANGED <<closeByRead, closePc, is_closed, defunctCalls, rFut>>]_vars

\* Two receives returned data, which _iobuf holds in receive order; both
\* were processed and handle_read waits for more.
C18_Witness ==
  /\ nRecv = 2
  /\ received = <<1, 2>>
  /\ _iobuf = <<1, 2>>
  /\ procCalls = 2
  /\ rTask = "wait"
  /\ closeByRead = 0
  /\ ~is_closed

\* C19 (SpecWrite).  A task is cancelled only after close() called cancel()
\* on its watcher.  Once the write task is cancelled it stays so, sends
\* nothing, takes nothing from the queue, whatever is pushed, and calls
\* defunct no more; once the read task is cancelled it stays so, receives
\* nothing, writes nothing to _iobuf and calls neither process_io_buffer nor
\* defunct nor close.
C19_NothingAfterCancel ==
  /\ [](/\ wTask = "cancelled" => (is_closed /\ cancelReq.write >= 1)
        /\ rTask = "cancelled" => (is_closed /\ cancelReq.read >= 1))
  /\ [][/\ wTask = "cancelled" =>
             /\ wTask' = "cancelled"
             /\ IsPrefix(_write_queue, _write_queue')
             /\ defunctCalls'.write = defunctCalls.write
             /\ UNCHANGED <<sent, sending, nSendErr>>
        /\ rTask = "cancelled" =>
             /\ rTask' = "cancelled"
             /\ defunctCalls'.read = defunctCalls.read
             /\ UNCHANGED <<nRecv, nWant, nEof, nRecvErr, _iobuf, received,
                            procCalls, closeByRead>>]_vars

\* close() has returned and both tasks are cancelled; chunks are left in the
\* queue, a chunk pushed after the cancellations were handed to the loop is
\* still to be put, and nothing but the options message was sent.
C19_Witness ==
  /\ is_closed
  /\ connected_event
  /\ wTask = "cancelled"
  /\ rTask = "cancelled"
  /\ _write_queue # <<>>
  /\ \E i \in 1..Len(ready) : ready[i].op = "put"
  /\ sent = Payload(1, OptionsLen)

\* The chunks handed to _push_chunk so far: those enqueued and those whose
\* put is still among the loop's callbacks.
Handed == Len(enqueued) + Cardinality({i \in 1..Len(ready) : ready[i].op = "put"})

\* Every chunk handed over has been enqueued and sent in full.
AllSent ==
  /\ Handed = Len(enqueued)
  /\ sent = Concat(enqueued)

\* C16 (LiveWrite).  On a connection that is never closed, under the loop's
\* fairness and unless a socket error is raised in handle_write, again and
\* again every chunk handed to _push_chunk until then has been sent in full,
\* so each chunk is sent in the end; a put that finds handle_write suspended
\* in get() schedules its next step, and handle_write does not stay
\* suspended in get() while a put is to come.
C16_PushedIsSent ==
  /\ []<>(AllSent \/ nSendErr >= 1)
  /\ (wTask = "getwait" /\ Handed > Len(enqueued)) ~> (wTask # "getwait")
  /\ [][(wTask = "getwait" /\ enqueued' # enqueued) =>
          /\ wTask' = "sched"
          /\ ready' = Append(Tail(ready), CB("step_write", <<>>))]_vars

\* Every payload was sent in full, a payload of several chunks among them,
\* with no error and no close; handle_write waits in get() for the next.
C16_Witness ==
  /\ Len(pushed) = MaxPush + 1
  /\ \E n \in 1..Len(pushed) : Len(pushed[n]) > OutBufferSize
  /\ Handed = Len(enqueued)
  /\ sent = Concat(pushed)
  /\ wTask = "getwait"
  /\ nSendErr = 0
  /\ ~is_closed

\* The steps of handle_read among the loop's ready callbacks
ReadSteps == Cardinality({i \in 1..Len(ready) : ready[i].op = "step_read"})

\* C17 (LiveWant).  A receive that raises an SSLWant* error suspends
\* handle_read with one step of it put behind the loop's ready callbacks, and
\* the retry is made by that step: one step is queued while the task is
\* suspended, none while it runs.  While the receives go on raising, under
\* the loop's fairness, the write loop again and again has sent all that was
\* handed over (unless a socket error ended it), and a timer made fires.
C17_WantYieldsToOthers ==
  /\ [](/\ rTask = "sched" => ReadSteps = 1
        /\ rTask = "run" => ReadSteps = 0)
  /\ [][(rTask = "run" /\ rTask' # "run" /\ lastRecv' = "want") =>
          /\ rTask' = "sched"
          /\ ready' = Append(ready, CB("step_read", <<>>))
          /\ UNCHANGED <<_iobuf, defunctCalls, procCalls, is_closed>>]_vars
  /\ []<>(AllSent \/ nSendErr >= 1)
  /\ (_handle = "pending") ~> (callbackRuns = 1)

\* The receives have raised SSLWant* errors up to the last one; meanwhile
\* the options message was sent and the timer has fired, and handle_read
\* waits for its next turn.
C17_Witness ==
  /\ nWant = MaxWant
  /\ lastRecv = "want"
  /\ rTask = "sched"
  /\ ReadSteps = 1
  /\ sent = Payload(1, OptionsLen)
  /\ callbackRuns = 1
  /\ nRecvErr = 0

====
